---- MODULE Spec2Model ----
(***************************************************************************)
(* The two ProbLog notebooks of the repository as state machines.         *)
(*                                                                         *)
(* A program is a sequence of statements (the statements of the strings   *)
(* the notebooks hand to PrologString).  A handle is a clause database    *)
(* (engine.prepare / db.extend()).  A query is evaluated under the        *)
(* distribution semantics: the ground probabilistic choices relevant to   *)
(* the query and the evidence are enumerated world by world, and the      *)
(* weights of the worlds that satisfy the evidence (and the query) are    *)
(* accumulated.  Probabilities are exact rationals <<num, den>>.          *)
(***************************************************************************)
EXTENDS Integers, Sequences, FiniteSets, TLC

VARIABLES
    pc,      \* position in the notebook: the last cell that has run
    heap,    \* clause databases: handle id -> [parent, own]
    env,     \* Python names bound to handles: name -> handle id
    lf,      \* ground program of the evaluation in progress: atom -> ground rules
    qs,      \* queried atoms of the evaluation in progress
    ev,      \* evidence of the evaluation in progress: set of <<atom, value>>
    order,   \* relevant probabilistic choices, in enumeration order
    world,   \* current possible world: alternative chosen for each choice
    accE,    \* weight of the worlds seen so far that satisfy the evidence
    accQ,    \* per query: weight of the worlds that satisfy evidence and query
    phase,   \* "idle", "eval" or "done"
    out,     \* result of the last finished evaluation: query -> <<num, den>>
    tag,     \* call site and inputs of the evaluation in progress
    prev     \* tag and result of the evaluation finished before this one

vars == <<pc, heap, env, lf, qs, ev, order, world, accE, accQ, phase, out, tag, prev>>

-----------------------------------------------------------------------------
(* Bounds of the model.                                                    *)

\* timestep(T) is queried for -NegT <= T <= MaxT
NegT == 3
MaxT == 12

-----------------------------------------------------------------------------
(* Exact rational arithmetic.                                              *)

RECURSIVE GCD(_, _)
GCD(a, b) == IF b = 0 THEN a ELSE GCD(b, a % b)

Reduce(n, d) == IF d = 0 THEN <<0, 0>> ELSE LET g == GCD(n, d) IN <<n \div g, d \div g>>

-----------------------------------------------------------------------------
(* Terms and atoms.                                                        *)

c1 == "c1"
c2 == "c2"
c3 == "c3"
none == "none"
computers == <<c1, c2, c3>>

TMAX == 10

running(t, c) == <<"running", t, c>>
reboot(x) == <<"reboot", x>>
reboot0 == <<"reboot">>
concurrency == <<"concurrency">>
timestep(t) == <<"timestep", t>>
computer(c) == <<"computer", c>>
connected(c) == <<"connected", c>>
horizon == <<"horizon">>
network == <<"network">>
Atom(p) == <<p>>

-----------------------------------------------------------------------------
(* Statements.  k is the kind of clause; a the head; pos and neg the       *)
(* positive and negated body atoms; ls a list argument; n/d the annotation *)
(* (or a number argument).  In a clause with variables the variable C is   *)
(* written "C".                                                            *)

Stmt(k, a, pos, neg, ls, n, d) ==
    [k |-> k, a |-> a, pos |-> pos, neg |-> neg, ls |-> ls, n |-> n, d |-> d]

Directive(lib) == Stmt("directive", Atom(lib), {}, {}, <<>>, 1, 1)
Fact(a) == Stmt("fact", a, {}, {}, <<>>, 1, 1)
FactL(a, ls) == Stmt("fact", a, {}, {}, ls, 1, 1)
FactN(a, n) == Stmt("fact", a, {}, {}, <<>>, n, 1)
PFact(n, d, a) == Stmt("pfact", a, {}, {}, <<>>, n, d)
Rule(a, pos, neg) == Stmt("rule", a, pos, neg, <<>>, 1, 1)
PRule(n, d, a, pos, neg) == Stmt("prule", a, pos, neg, <<>>, n, d)
AD(n, d, heads) == Stmt("ad", Atom("ad"), {}, {}, heads, n, d)
EvidenceSt(a, v) == Stmt(IF v THEN "evidence_true" ELSE "evidence_false", a, {}, {}, <<>>, 1, 1)
QuerySt(a) == Stmt("query", a, {}, {}, <<>>, 1, 1)
\* a clause with variables, of kind k
Schema(k, neg, n, d) == Stmt(k, Atom(k), {}, neg, <<>>, n, d)

-----------------------------------------------------------------------------
(* The program strings of "Representing MDPs with ProbLog".                *)

builtins == << Directive("lists"), Directive("apply") >>

topology ==
    << FactL(network, <<c1, c2, c3>>),
       Fact(computer(c1)), Fact(computer(c2)), Fact(computer(c3)),
       FactL(connected(c1), <<c2, c3>>),
       FactL(connected(c2), <<c1>>),
       FactL(connected(c3), <<c1>>) >>

\* timestep(T) :- horizon(TMAX), T < TMAX, T2 is T-1, timestep(T2).
steps ==
    << FactN(horizon, TMAX),
       Fact(timestep(0)),
       Schema("timestep_rule", {}, 1, 1) >>

\* 0.5::running(T, C) :- timestep(T), computer(C).
fluents == << Schema("fluent", {}, 5, 10) >>

\* 0.5::running(0, C) :- computer(C).
prior == << Schema("prior", {}, 5, 10) >>

\* cell 2.1: 0.05::running(Tnext, C) :- ..., not running(T, C).
\*           P::running(Tnext, C) :- ..., running(T, C), ..., P is 0.45+0.50*TR/TC.
transition3 ==
    << Schema("down", {}, 5, 100),
       Schema("up", {}, 1, 1) >>

\* 1/4::reboot(c1);1/4::reboot(c2);1/4::reboot(c3);1/4::reboot(none).
actions_ad == << AD(1, 4, <<reboot(c1), reboot(c2), reboot(c3), reboot(none)>>) >>

\* the actions without the fact 0.5::reboot(none).
actions_no_none ==
    << Schema("reboot_c", {}, 5, 10),
       Schema("concurrency", {}, 1, 1),
       Schema("reboot_any", {}, 1, 1) >>

\* 0.5::reboot(C) :- computer(C).  0.5::reboot(none).
\* concurrency :- reboot(C1), reboot(C2), C1 \== C2.  reboot :- reboot(X).
actions ==
    << Schema("reboot_c", {}, 5, 10),
       PFact(5, 10, reboot(none)),
       Schema("concurrency", {}, 1, 1),
       Schema("reboot_any", {}, 1, 1) >>

\* cell 2.3 without the rule running(Tnext, C) :- Tnext > 0, computer(C), reboot(C).
transition5_no_reboot_rule ==
    << Schema("prior", {}, 5, 10),
       Schema("reboot_c", {}, 5, 10),
       PFact(5, 10, reboot(none)),
       Schema("concurrency", {}, 1, 1),
       Schema("reboot_any", {}, 1, 1),
       Schema("down", {reboot("C")}, 5, 100),
       Schema("up", {reboot("C")}, 1, 1) >>

\* cell 2.3: the prior, the actions and the rules of cell 2.1 guarded by
\* not reboot(C), plus running(Tnext, C) :- Tnext > 0, computer(C), reboot(C).
transition5 ==
    << Schema("prior", {}, 5, 10),
       Schema("reboot_c", {}, 5, 10),
       PFact(5, 10, reboot(none)),
       Schema("concurrency", {}, 1, 1),
       Schema("reboot_any", {}, 1, 1),
       Schema("reboot_run", {}, 1, 1),
       Schema("down", {reboot("C")}, 5, 100),
       Schema("up", {reboot("C")}, 1, 1) >>

-----------------------------------------------------------------------------
(* The program strings of "Introduction to Probability Theory Using        *)
(* ProbLog".                                                               *)

a == Atom("a")
b == Atom("b")
p == Atom("p")
q == Atom("q")
r == Atom("r")
w1 == Atom("w1")
w2 == Atom("w2")
w3 == Atom("w3")
w4 == Atom("w4")
not_a == Atom("not_a")
not_b == Atom("not_b")
aux1 == Atom("aux1")
aux2 == Atom("aux2")
aux3 == Atom("aux3")

\* the first model (cell "Hello, ProbLog!")
model ==
    << PFact(8, 10, p), PFact(1, 10, q),
       Rule(r, {q}, {p}),
       EvidenceSt(q, TRUE), QuerySt(r) >>

m1 == << PFact(65, 100, a), PFact(10, 100, b), QuerySt(a), QuerySt(b) >>

m2 == << PFact(65, 100, a), PFact(10, 100, b), Rule(w1, {a, b}, {}), QuerySt(w1) >>

\* m3 with not_a :- a.
m3_positive ==
    << PFact(65, 100, a), PFact(10, 100, b),
       Rule(not_a, {a}, {}), Rule(not_b, {}, {b}),
       QuerySt(not_a), QuerySt(not_b) >>

m3 ==
    << PFact(65, 100, a), PFact(10, 100, b),
       Rule(not_a, {}, {a}), Rule(not_b, {}, {b}),
       QuerySt(not_a), QuerySt(not_b) >>

\* m4 with w2 :- a.
m4_overlap ==
    << PFact(65, 100, a), PFact(10, 100, b),
       Rule(w1, {a, b}, {}), Rule(w2, {a}, {}),
       Rule(w3, {b}, {a}), Rule(w4, {}, {a, b}),
       QuerySt(w1), QuerySt(w2), QuerySt(w3), QuerySt(w4) >>

m4 ==
    << PFact(65, 100, a), PFact(10, 100, b),
       Rule(w1, {a, b}, {}), Rule(w2, {a}, {b}),
       Rule(w3, {b}, {a}), Rule(w4, {}, {a, b}),
       QuerySt(w1), QuerySt(w2), QuerySt(w3), QuerySt(w4) >>

\* the rules of m5 with 0.6::r :- q.
m5_rules_overlap ==
    << PFact(2, 10, p), PFact(3, 10, q),
       PRule(8, 10, r, {p}, {}),
       PRule(6, 10, r, {q}, {}),
       PRule(1, 10, r, {}, {p, q}) >>

\* m5 and m6 without their evidence and query lines
m5_rules ==
    << PFact(2, 10, p), PFact(3, 10, q),
       PRule(8, 10, r, {p}, {}),
       PRule(6, 10, r, {q}, {p}),
       PRule(1, 10, r, {}, {p, q}) >>

m6_rules ==
    << PFact(2, 10, p), PFact(3, 10, q),
       PFact(8, 10, aux1), PFact(6, 10, aux2), PFact(1, 10, aux3),
       Rule(r, {p, aux1}, {}),
       Rule(r, {q, aux2}, {p}),
       Rule(r, {aux3}, {p, q}) >>

m5 == m5_rules \o << EvidenceSt(p, FALSE), EvidenceSt(q, TRUE), QuerySt(r) >>

m6 == m6_rules \o << EvidenceSt(p, FALSE), EvidenceSt(q, FALSE), QuerySt(r) >>

-----------------------------------------------------------------------------
(* Grounding.  A ground rule has a body (pos, neg) and, when its clause is *)
(* probabilistic, the choice var that must take alternative alt for the    *)
(* rule to fire; <<0>> is no choice.  A choice is named by the index of    *)
(* its clause in the program and by the values of the clause's variables,  *)
(* so every grounding of a probabilistic clause is an independent choice.  *)

Idx(cl) == 1..Len(cl)
Range(ls) == {ls[j] : j \in 1..Len(ls)}
FactsOf(cl, name) == {j \in Idx(cl) : cl[j].k = "fact" /\ cl[j].a[1] = name}

Computers(cl) == {cl[j].a[2] : j \in FactsOf(cl, "computer")}
ConnectedLists(cl, C) == {cl[j].ls : j \in {i \in FactsOf(cl, "connected") : cl[i].a[2] = C}}
Horizons(cl) == {cl[j].n : j \in FactsOf(cl, "horizon")}

\* the terms X for which some clause has a head reboot(X)
RebootDomain(cl) ==
    UNION {
        LET s == cl[j] IN
        CASE s.k = "reboot_c" -> Computers(cl)
          [] s.k \in {"fact", "pfact", "rule", "prule"} ->
                IF s.a[1] = "reboot" /\ Len(s.a) = 2 THEN {s.a[2]} ELSE {}
          [] s.k = "ad" ->
                {s.ls[i][2] : i \in {h \in 1..Len(s.ls) : s.ls[h][1] = "reboot"}}
          [] OTHER -> {}
        : j \in Idx(cl)}

\* the body literals of a clause that mention its variable C, for C = c
Sub(atoms, c) == {IF x[1] = "reboot" THEN reboot(c) ELSE x : x \in atoms}

GR(pos, neg, var, alt) == [pos |-> pos, neg |-> neg, var |-> var, alt |-> alt]

\* the pairs of distinct computers only: reboot(none) never conflicts
ConcurrentPairs_computers(cl) == {h \in Computers(cl) \X Computers(cl) : h[1] # h[2]}

\* concurrency :- reboot(C1), reboot(C2), C1 \== C2: the pairs <<C1, C2>>
ConcurrentPairs(cl) == {h \in RebootDomain(cl) \X RebootDomain(cl) : h[1] # h[2]}

\* the rule with T =< TMAX for T < TMAX
TimestepRule_inclusive(cl, T) ==
    IF (\E h \in Horizons(cl) : T <= h) /\ T - 1 >= -NegT
    THEN {GR({timestep(T - 1)}, {}, <<0>>, 0)} ELSE {}

\* timestep(T) :- horizon(TMAX), T < TMAX, T2 is T-1, timestep(T2).
\* Below -NegT the atom timestep(T2) is taken to have no derivation: every
\* derivation of timestep(T) for T < 0 would descend without end.
TimestepRule(cl, T) ==
    IF (\E h \in Horizons(cl) : T < h) /\ T - 1 >= -NegT
    THEN {GR({timestep(T - 1)}, {}, <<0>>, 0)} ELSE {}

\* the ground instances of clause i of cl whose head is the atom at
Inst(cl, i, at) ==
    LET s == cl[i]
        name == at[1]
        isRunning == name = "running" /\ at[3] \in Computers(cl)
    IN
    CASE s.k = "fact" -> IF s.a = at THEN {GR({}, {}, <<0>>, 0)} ELSE {}
      [] s.k = "pfact" -> IF s.a = at THEN {GR({}, {}, <<i>>, 1)} ELSE {}
      [] s.k = "rule" -> IF s.a = at THEN {GR(s.pos, s.neg, <<0>>, 0)} ELSE {}
      [] s.k = "prule" -> IF s.a = at THEN {GR(s.pos, s.neg, <<i>>, 1)} ELSE {}
      [] s.k = "ad" -> {GR({}, {}, <<i>>, j) : j \in {h \in 1..Len(s.ls) : s.ls[h] = at}}
      [] s.k = "timestep_rule" ->
            IF name = "timestep" THEN TimestepRule(cl, at[2]) ELSE {}
      [] s.k = "fluent" ->
            IF isRunning
            THEN {GR({timestep(at[2])}, {}, <<i, at[2], at[3]>>, 1)} ELSE {}
      [] s.k = "prior" ->
            IF isRunning /\ at[2] = 0
            THEN {GR({}, {}, <<i, 0, at[3]>>, 1)} ELSE {}
      [] s.k = "down" ->
            IF isRunning /\ at[2] > 0
            THEN {GR({}, {running(at[2] - 1, at[3])} \cup Sub(s.neg, at[3]),
                     <<i, at[2], at[3]>>, 1)}
            ELSE {}
      [] s.k = "up" ->
            IF isRunning /\ at[2] > 0
            THEN LET T == at[2] - 1
                     C == at[3]
                 IN {GR({running(T, C)} \cup {running(T, x) : x \in g[2]},
                        {running(T, x) : x \in Range(g[1]) \ g[2]} \cup Sub(s.neg, C),
                        <<i, at[2], C, g[1], g[2]>>, 1)
                     : g \in UNION {{<<Ls, Alive>> : Alive \in SUBSET Range(Ls)}
                                    : Ls \in {l \in ConnectedLists(cl, C) : Len(l) > 0}}}
            ELSE {}
      [] s.k = "reboot_run" ->
            IF isRunning /\ at[2] > 0
            THEN {GR({reboot(at[3])}, {}, <<0>>, 0)} ELSE {}
      [] s.k = "reboot_c" ->
            IF name = "reboot" /\ Len(at) = 2 /\ at[2] \in Computers(cl)
            THEN {GR({}, {}, <<i, at[2]>>, 1)} ELSE {}
      [] s.k = "concurrency" ->
            IF at = concurrency
            THEN {GR({reboot(g[1]), reboot(g[2])}, {}, <<0>>, 0) : g \in ConcurrentPairs(cl)}
            ELSE {}
      [] s.k = "reboot_any" ->
            IF at = reboot0
            THEN {GR({reboot(x)}, {}, <<0>>, 0) : x \in RebootDomain(cl)} ELSE {}
      [] OTHER -> {}

RulesFor(cl, at) == UNION {Inst(cl, i, at) : i \in Idx(cl)}

BodyAtoms(rules) == UNION {g.pos \cup g.neg : g \in rules}

RECURSIVE Relevant(_, _)
Relevant(cl, S) ==
    LET N == S \cup UNION {BodyAtoms(RulesFor(cl, x)) : x \in S}
    IN IF N = S THEN S ELSE Relevant(cl, N)

\* engine.ground_all: the ground rules of every atom the queries and the
\* evidence depend on
ground_all(cl, atoms) == [x \in Relevant(cl, atoms) |-> RulesFor(cl, x)]

\* P is 0.45+0.50*(TR//TC): the quotient taken as an integer division
PUp_floor(TR, TC) == Reduce(45 + 50 * (TR \div TC), 100)

\* P is 0.45+0.50*TR: the division by TC left out
PUp_no_division(TR, TC) == Reduce(45 + 50 * TR, 100)

\* P is 0.45+0.50*TR/TC
PUp(TR, TC) == Reduce(45 * TC + 50 * TR, 100 * TC)

\* the weights of the alternatives of a choice, over a common denominator
Dist(cl, var) ==
    LET s == cl[var[1]]
        f == IF s.k = "up" THEN PUp(Cardinality(var[5]), Len(var[4])) ELSE Reduce(s.n, s.d)
    IN IF s.k = "ad"
       THEN [j \in 1..(Len(s.ls) + IF s.n * Len(s.ls) < s.d THEN 1 ELSE 0) |->
                IF j <= Len(s.ls) THEN s.n ELSE s.d - s.n * Len(s.ls)]
       ELSE <<f[1], f[2] - f[1]>>

RECURSIVE SetToSeq(_)
SetToSeq(S) == IF S = {} THEN <<>> ELSE LET x == CHOOSE y \in S : TRUE IN <<x>> \o SetToSeq(S \ {x})

\* the alternatives of choice var that the evidence E leaves possible: an
\* evidence atom whose only ground rule is a bodiless probabilistic fact
\* fixes that fact's choice (every other world has weight 0 under E)
Allowed(g, E, var, n) ==
    LET fixes == {e \in E : g[e[1]] = {GR({}, {}, var, x.alt) : x \in g[e[1]]}}
        ok == {k \in 1..n : \A e \in fixes : \A x \in g[e[1]] : (x.alt = k) = e[2]}
    IN IF ok = {} THEN 1..n ELSE ok

RECURSIVE Sorted(_)
Sorted(S) ==
    IF S = {} THEN <<>>
    ELSE LET x == CHOOSE y \in S : \A z \in S : y <= z IN <<x>> \o Sorted(S \ {x})

\* the choices of a ground program, each with its weights and the
\* alternatives to enumerate
Choices(cl, g, E) ==
    LET ids == {x.var : x \in UNION {g[y] : y \in DOMAIN g}} \ {<<0>>}
        sq == SetToSeq(ids)
    IN [j \in 1..Len(sq) |->
          LET ws == Dist(cl, sq[j])
          IN [id |-> sq[j], ws |-> ws, alts |-> Sorted(Allowed(g, E, sq[j], Len(ws)))]]

-----------------------------------------------------------------------------
(* Truth in a possible world, and the weight of a world.                   *)

Chosen(ord, w, g) ==
    g.var = <<0>> \/ \E j \in 1..Len(ord) : ord[j].id = g.var /\ ord[j].alts[w[j]] = g.alt

RECURSIVE Holds(_, _, _, _)
Holds(g, ord, w, at) ==
    \E x \in g[at] :
        /\ Chosen(ord, w, x)
        /\ \A y \in x.pos : Holds(g, ord, w, y)
        /\ \A y \in x.neg : ~Holds(g, ord, w, y)

EvidenceHolds(g, ord, w, E) == \A e \in E : Holds(g, ord, w, e[1]) = e[2]

RECURSIVE WeightFrom(_, _, _)
WeightFrom(ord, w, j) ==
    IF j > Len(ord) THEN 1 ELSE ord[j].ws[ord[j].alts[w[j]]] * WeightFrom(ord, w, j + 1)

Weight(ord, w) == WeightFrom(ord, w, 1)

FirstWorld(ord) == [j \in 1..Len(ord) |-> 1]
IsLast(ord, w) == \A j \in 1..Len(ord) : w[j] = Len(ord[j].alts)

RECURSIVE Inc(_, _, _)
Inc(ord, w, j) ==
    IF w[j] < Len(ord[j].alts) THEN [w EXCEPT ![j] = @ + 1]
    ELSE Inc(ord, [w EXCEPT ![j] = 1], j + 1)

NextWorld(ord, w) == Inc(ord, w, 1)

-----------------------------------------------------------------------------
(* Clause databases.  A handle is an index of heap; its clauses are those  *)
(* of its parent followed by its own.                                      *)

RECURSIVE Clauses(_, _)
Clauses(hp, h) == IF h = 0 THEN <<>> ELSE Clauses(hp, hp[h].parent) \o hp[h].own

\* db = engine.prepare(PrologString(model_str))
precompile(hp, model_str) ==
    [heap |-> Append(hp, [parent |-> 0, own |-> model_str]), id |-> Len(hp) + 1]

RECURSIVE AddStatements(_, _, _, _)
AddStatements(hp, db2, model_str, j) ==
    IF j > Len(model_str) THEN hp
    ELSE AddStatements([hp EXCEPT ![db2].own = Append(@, model_str[j])], db2, model_str, j + 1)

\* db2 = db; for statement in PrologString(model_str): db2 += statement
extend_in_place(hp, db, model_str) ==
    [heap |-> AddStatements(hp, db, model_str, 1), id |-> db]

\* db2 = db.extend(); for statement in PrologString(model_str): db2 += statement
extend(hp, db, model_str) ==
    LET h0 == Append(hp, [parent |-> db, own |-> <<>>])
        db2 == Len(h0)
    IN [heap |-> AddStatements(h0, db2, model_str, 1), id |-> db2]

Bind(e, name, h) == [x \in DOMAIN e \cup {name} |-> IF x = name THEN h ELSE e[x]]

QueriesOf(cl) == {cl[j].a : j \in {i \in Idx(cl) : cl[i].k = "query"}}
EvidenceOf(cl) ==
    {<<cl[j].a, cl[j].k = "evidence_true">>
     : j \in {i \in Idx(cl) : cl[i].k \in {"evidence_true", "evidence_false"}}}

-----------------------------------------------------------------------------
(* Evaluation.                                                             *)

NoOut == [x \in {} |-> <<0, 0>>]
NoPrev == [tag |-> "", ev |-> {}, out |-> NoOut]

\* lf = engine.ground_all(db, queries, evidence); evaluation starts
StartEval(site, cl, Q, E) ==
    /\ phase = "idle"
    /\ lf' = ground_all(cl, Q \cup {e[1] : e \in E})
    /\ order' = Choices(cl, lf', E)
    /\ world' = FirstWorld(order')
    /\ qs' = Q
    /\ ev' = E
    /\ accE' = 0
    /\ accQ' = [x \in Q |-> 0]
    /\ phase' = "eval"
    /\ out' = NoOut
    /\ tag' = site

\* get_evaluatable().create_from(lf).evaluate(): one possible world per step
Step ==
    /\ phase = "eval"
    /\ LET wt == Weight(order, world)
           eh == EvidenceHolds(lf, order, world, ev)
       IN /\ accE' = accE + (IF eh THEN wt ELSE 0)
          /\ accQ' = [x \in qs |->
                        accQ[x] + (IF eh /\ Holds(lf, order, world, x) THEN wt ELSE 0)]
    /\ IF IsLast(order, world)
       THEN /\ phase' = "done"
            /\ out' = [x \in qs |-> Reduce(accQ'[x], accE')]
            /\ world' = world
       ELSE /\ world' = NextWorld(order, world)
            /\ UNCHANGED <<phase, out>>
    /\ UNCHANGED <<pc, heap, env, lf, qs, ev, order, tag, prev>>

Idle ==
    /\ lf' = <<>>
    /\ order' = <<>>
    /\ world' = <<>>
    /\ qs' = {}
    /\ ev' = {}
    /\ accE' = 0
    /\ accQ' = NoOut
    /\ phase' = "idle"
    /\ out' = NoOut
    /\ tag' = ""

-----------------------------------------------------------------------------
(* "Introduction to Probability Theory Using ProbLog": run(model_str).     *)

Models ==
    [model |-> model, m1 |-> m1, m2 |-> m2, m3 |-> m3, m4 |-> m4, m5 |-> m5, m6 |-> m6]

\* the evidence lines tried on the rules of m5 and m6
Observations ==
    {{}} \cup {{<<p, pv>>, <<q, qv>>} : pv \in BOOLEAN, qv \in BOOLEAN}

WithEvidence(rules, E) ==
    rules \o [j \in 1..Cardinality(E) |->
                LET e == SetToSeq(E)[j] IN EvidenceSt(e[1], e[2])]
          \o << QuerySt(r) >>

run(site, model_str) ==
    /\ pc = "intro"
    /\ StartEval(site, model_str, QueriesOf(model_str), EvidenceOf(model_str))
    /\ UNCHANGED <<pc, heap, env, prev>>

\* print(...) of run: the result is shown and the call returns
PrintRun ==
    /\ pc = "intro"
    /\ phase = "done"
    /\ prev' = [tag |-> tag, ev |-> ev, out |-> out]
    /\ Idle
    /\ UNCHANGED <<pc, heap, env>>

Run == \E name \in DOMAIN Models : run(name, Models[name])

RunRules5 == \E E \in Observations : run("m5_rules", WithEvidence(m5_rules, E))

RunRules6 == \E E \in Observations : run("m6_rules", WithEvidence(m6_rules, E))

InitIntro ==
    /\ pc = "intro"
    /\ heap = <<>>
    /\ env = <<>>
    /\ lf = <<>>
    /\ order = <<>>
    /\ world = <<>>
    /\ qs = {}
    /\ ev = {}
    /\ accE = 0
    /\ accQ = NoOut
    /\ phase = "idle"
    /\ out = NoOut
    /\ tag = ""
    /\ prev = NoPrev

NextIntro == Run \/ RunRules5 \/ RunRules6 \/ Step \/ PrintRun

SpecIntro == InitIntro /\ [][NextIntro]_vars

-----------------------------------------------------------------------------
(* "Representing MDPs with ProbLog": the cells in notebook order.  A cell  *)
(* that extends a database runs once; the queries of a cell run on the     *)
(* handles it has built, for every input of the loops of the notebook.     *)

\* name = extend(src, model_str), with src and name Python names
ExtendTo(hp, e, name, src, model_str) ==
    LET x == extend(hp, e[src], model_str)
    IN [heap |-> x.heap, env |-> Bind(e, name, x.id)]

Cell(from, to) ==
    /\ pc = from
    /\ phase = "idle"
    /\ pc' = to
    /\ UNCHANGED <<lf, qs, ev, order, world, accE, accQ, phase, out, tag, prev>>

\* print(query(...)): the result is shown and the call returns
PrintQuery ==
    /\ pc # "intro"
    /\ phase = "done"
    /\ Idle
    /\ UNCHANGED <<pc, heap, env, prev>>

\* query(model, queries, evidence) on a handle bound to a Python name
query(site, name, Q, E) ==
    /\ StartEval(site, Clauses(heap, env[name]), Q, E)
    /\ UNCHANGED <<pc, heap, env, prev>>

\* db = precompile(builtins)
Imports ==
    /\ Cell("start", "imports")
    /\ LET x == precompile(heap, builtins)
       IN heap' = x.heap /\ env' = Bind(env, "db", x.id)

\* db = extend(db, topology)
Topology ==
    /\ Cell("imports", "topology")
    /\ LET x == ExtendTo(heap, env, "db", "db", topology)
       IN heap' = x.heap /\ env' = x.env

\* db = extend(db, steps)
Steps ==
    /\ Cell("topology", "steps")
    /\ LET x == ExtendTo(heap, env, "db", "db", steps)
       IN heap' = x.heap /\ env' = x.env

\* query(db, queries=timesteps)
QueryTimesteps ==
    /\ pc = "steps"
    /\ \E T \in (-NegT)..MaxT : query("timesteps", "db", {timestep(T)}, {})

\* db2 = extend(db, fluents)
Fluents ==
    /\ Cell("steps", "fluents")
    /\ LET x == ExtendTo(heap, env, "db2", "db", fluents)
       IN heap' = x.heap /\ env' = x.env

\* query(db2, queries=[running(Constant(i), None)])
QueryFluents ==
    /\ pc = "fluents"
    /\ \E T \in 0..(TMAX - 1), C \in Range(computers) :
          query("fluents", "db2", {running(T, C)}, {})

\* db3 = extend(db, prior); db3 = extend(db3, transition)
Cell21 ==
    /\ Cell("fluents", "cell21")
    /\ LET x == ExtendTo(heap, env, "db3", "db", prior)
           y == ExtendTo(x.heap, x.env, "db3", "db3", transition3)
       IN heap' = y.heap /\ env' = y.env

StateEvidence(values) == {<<running(0, C), values[C]>> : C \in Range(computers)}

\* for values in itertools.product(...): query(db3, queries, evidence)
QueryDb3 ==
    /\ pc = "cell21"
    /\ \E values \in [Range(computers) -> BOOLEAN], C \in Range(computers) :
          query("db3", "db3", {running(1, C)}, StateEvidence(values))

RebootAtoms == {reboot(c1), reboot(c2), reboot(c3), reboot(none)}

\* query(actions, queries=[reboot(None)]) on the annotated disjunction
Cell22a ==
    /\ pc = "cell21"
    /\ pc' = "cell22a"
    /\ LET x == precompile(heap, actions_ad)
       IN /\ heap' = x.heap
          /\ StartEval("actions_ad", Clauses(x.heap, x.id), RebootAtoms, {})
    /\ UNCHANGED <<env, prev>>

\* db4 = extend(db, actions)
Cell22b ==
    /\ Cell("cell22a", "cell22b")
    /\ LET x == ExtendTo(heap, env, "db4", "db", actions)
       IN heap' = x.heap /\ env' = x.env

\* evidence = [(Term('concurrency'), False), (reboot(), True)]
NonConcurrent == {<<concurrency, FALSE>>, <<reboot0, TRUE>>}

\* query(db4, queries=[reboot(None)]) without and with the evidence
QueryDb4 ==
    /\ pc = "cell22b"
    /\ \E E \in {{}, NonConcurrent} : query("db4", "db4", RebootAtoms, E)

\* db5 = extend(db, transition)
Cell23 ==
    /\ Cell("cell22b", "cell23")
    /\ LET x == ExtendTo(heap, env, "db5", "db", transition5)
       IN heap' = x.heap /\ env' = x.env

\* query(db5, queries=[running(t1,None)], evidence): with the action
\* constraints alone, then with an initial state and one action as well
QueryDb5 ==
    /\ pc = "cell23"
    /\ \E C \in Range(computers) :
          \/ query("db5", "db5", {running(1, C)}, NonConcurrent)
          \/ \E values \in [Range(computers) -> BOOLEAN], act \in Range(computers) \cup {none} :
                query("db5", "db5", {running(1, C)},
                      NonConcurrent \cup StateEvidence(values) \cup {<<reboot(act), TRUE>>})

Init ==
    /\ pc = "start"
    /\ heap = <<>>
    /\ env = <<>>
    /\ lf = <<>>
    /\ order = <<>>
    /\ world = <<>>
    /\ qs = {}
    /\ ev = {}
    /\ accE = 0
    /\ accQ = NoOut
    /\ phase = "idle"
    /\ out = NoOut
    /\ tag = ""
    /\ prev = NoPrev

Next ==
    \/ Imports \/ Topology \/ Steps \/ QueryTimesteps
    \/ Fluents \/ QueryFluents
    \/ Cell21 \/ QueryDb3
    \/ Cell22a \/ Cell22b \/ QueryDb4
    \/ Cell23 \/ QueryDb5
    \/ Step \/ PrintQuery

Spec == Init /\ [][Next]_vars

-----------------------------------------------------------------------------
(* Claims about the second notebook, checked under Spec.                   *)

\* the evaluation started at call site `site` has returned its result
Done(site) == phase = "done" /\ tag = site
\* the variable world holds a possible world of the evaluation started at `site`
InWorldOf(site) == phase \in {"eval", "done"} /\ tag = site
TrueNow(at) == Holds(lf, order, world, at)

\* the connected list of C in the topology, and how many of its members the
\* evidence E has running at time 0
ListOf(C) == CHOOSE l \in ConnectedLists(topology, C) : TRUE
RunningAt0(E, C) == <<running(0, C), TRUE>> \in E
AliveIn(E, C) == Cardinality({j \in 1..Len(ListOf(C)) : RunningAt0(E, ListOf(C)[j])})

\* 1/20 if C is down, 9/20 + (1/2)*TR/TC if it is up
Exogenous(E, C) ==
    IF ~RunningAt0(E, C) THEN <<1, 20>>
    ELSE Reduce(9 * Len(ListOf(C)) + 10 * AliveIn(E, C), 20 * Len(ListOf(C)))

HasState(E) == \A C \in Range(computers) : \E v \in BOOLEAN : <<running(0, C), v>> \in E

\* C1: in db5, given an initial state, one action and the evidence
\* concurrency=false, reboot=true, running(1,C) has probability 1 if C is the
\* rebooted computer, else 1/20 if C is down, else 9/20 + (1/2)*TR/TC; state
\* (T,T,F) with reboot(c3) gives c1: 7/10, c2: 19/20, c3: 1.
C1_StateActionTransition ==
    (Done("db5") /\ HasState(ev)) =>
        \A x \in qs :
            /\ out[x] = IF <<reboot(x[3]), TRUE>> \in ev THEN <<1, 1>> ELSE Exogenous(ev, x[3])
            /\ ({<<running(0, c1), TRUE>>, <<running(0, c2), TRUE>>, <<running(0, c3), FALSE>>,
                 <<reboot(c3), TRUE>>} \subseteq ev)
                    => out[x] = (CASE x[3] = c1 -> <<7, 10>>
                                   [] x[3] = c2 -> <<19, 20>>
                                   [] x[3] = c3 -> <<1, 1>>)

C1_Witness ==
    /\ Done("db5")
    /\ ev = NonConcurrent \cup {<<running(0, c1), TRUE>>, <<running(0, c2), TRUE>>,
                                <<running(0, c3), FALSE>>, <<reboot(c3), TRUE>>}
    /\ qs = {running(1, c1)}
    /\ out[running(1, c1)] = <<7, 10>>

\* C2: in db3, given an initial state, running(1,C) has probability 1/20 if C
\* is down and 9/20 + (1/2)*TR/TC if it is up; c1 takes the values 19/20, 7/10,
\* 9/20 and c2, c3 the values 19/20, 9/20.
C2_MarkovChainTransition ==
    Done("db3") =>
        \A x \in qs :
            /\ out[x] = Exogenous(ev, x[3])
            /\ RunningAt0(ev, x[3]) =>
                  out[x] \in (IF x[3] = c1 THEN {<<19, 20>>, <<7, 10>>, <<9, 20>>}
                              ELSE {<<19, 20>>, <<9, 20>>})

C2_Witness ==
    /\ Done("db3")
    /\ qs = {running(1, c1)}
    /\ RunningAt0(ev, c1) /\ RunningAt0(ev, c2) /\ ~RunningAt0(ev, c3)
    /\ out[running(1, c1)] = <<7, 10>>

ConsistentWorld ==
    /\ <<concurrency, FALSE>> \in ev
    /\ <<reboot0, TRUE>> \in ev
    /\ EvidenceHolds(lf, order, world, ev)

\* C3: in db4 and db5, every possible world consistent with the evidence
\* concurrency=false, reboot=true has exactly one of reboot(c1), reboot(c2),
\* reboot(c3), reboot(none) true.
C3_NonConcurrency ==
    ((InWorldOf("db4") \/ InWorldOf("db5")) /\ ConsistentWorld) =>
        Cardinality({x \in RebootAtoms : TrueNow(x)}) = 1

C3_Witness ==
    /\ InWorldOf("db5")
    /\ ConsistentWorld
    /\ ev = NonConcurrent
    /\ TrueNow(reboot(none))

\* C4: the annotated disjunction, and the independent facts conditioned on
\* concurrency=false and reboot=true, both give each of the four actions
\* probability 1/4; the independent facts without evidence give each 1/2.
C4_ActionEncodingsAgree ==
    /\ Done("actions_ad") => \A x \in RebootAtoms : out[x] = <<1, 4>>
    /\ (Done("db4") /\ ev = {<<concurrency, FALSE>>, <<reboot0, TRUE>>})
            => \A x \in RebootAtoms : out[x] = <<1, 4>>
    /\ (Done("db4") /\ ev = {}) => \A x \in RebootAtoms : out[x] = <<1, 2>>

C4_Witness ==
    /\ Done("db4")
    /\ ev = {<<concurrency, FALSE>>, <<reboot0, TRUE>>}
    /\ out[reboot(none)] = <<1, 4>>

\* C5: timestep(T) is derivable exactly for 0 <= T <= TMAX-1.
C5_Timesteps ==
    Done("timesteps") =>
        \A x \in qs :
            /\ out[x] \in {<<0, 1>>, <<1, 1>>}
            /\ out[x] = <<1, 1>> <=> (0 <= x[2] /\ x[2] <= TMAX - 1)

C5_Witness == Done("timesteps") /\ qs = {timestep(TMAX - 1)} /\ out[timestep(TMAX - 1)] = <<1, 1>>

Base == builtins \o topology \o steps
Bound(name) == name \in DOMAIN env
After(cells) == pc \in cells

\* C10: extend(db, model_str) gives a new handle whose clauses are those of
\* db followed by the statements of model_str and leaves db unchanged: the
\* statements of db2, db3, db4 and db5 are visible in no other handle.
C10_ExtendLeavesBaseUnchanged ==
    /\ After({"imports"}) => Clauses(heap, env["db"]) = builtins
    /\ After({"topology"}) => Clauses(heap, env["db"]) = builtins \o topology
    /\ After({"steps", "fluents", "cell21", "cell22a", "cell22b", "cell23"})
            => Clauses(heap, env["db"]) = Base
    /\ Bound("db2") => Clauses(heap, env["db2"]) = Base \o fluents
    /\ Bound("db3") => Clauses(heap, env["db3"]) = Base \o prior \o transition3
    /\ Bound("db4") => Clauses(heap, env["db4"]) = Base \o actions
    /\ Bound("db5") => Clauses(heap, env["db5"]) = Base \o transition5
    /\ \A x \in DOMAIN env, y \in DOMAIN env : x # y => env[x] # env[y]
    /\ \A h \in DOMAIN heap :
          Clauses(heap, h) \in {builtins, builtins \o topology, Base, Base \o fluents,
                                Base \o prior, Base \o prior \o transition3, actions_ad,
                                Base \o actions, Base \o transition5}

C10_Witness ==
    /\ After({"cell23"})
    /\ Bound("db2") /\ Bound("db3") /\ Bound("db4") /\ Bound("db5")
    /\ Clauses(heap, env["db5"]) = Base \o transition5

\* the choices of the evaluation in progress that ground the rule
\* P::running(Tnext, C): those named <<clause, Tnext, C, Ls, Alive>>
UpChoices == {j \in 1..Len(order) : Len(order[j].id) = 5}

\* C11: the annotation P of P::running(Tnext, C) is a valid probability:
\* every computer of the topology has a non-empty connected list (TC >= 1),
\* 0 <= TR <= TC, so P = 0.45+0.50*TR/TC lies in [9/20, 19/20]; and every
\* probability a query of the notebook returns lies in [0, 1].
C11_AnnotationIsProbability ==
    /\ After({"topology", "steps", "fluents", "cell21", "cell22a", "cell22b", "cell23"}) =>
          LET cl == Clauses(heap, env["db"])
          IN /\ Computers(cl) = Range(computers)
             /\ \A C \in Computers(cl) :
                   /\ ConnectedLists(cl, C) # {}
                   /\ \A l \in ConnectedLists(cl, C) : Len(l) >= 1
    /\ (InWorldOf("db3") \/ InWorldOf("db5")) =>
          \A j \in UpChoices :
             LET TC == Len(order[j].id[4])
                 TR == Cardinality(order[j].id[5])
                 P == order[j].ws[1]
                 den == order[j].ws[1] + order[j].ws[2]
             IN /\ TC >= 1
                /\ 0 <= TR /\ TR <= TC
                /\ den > 0
                /\ 9 * den <= 20 * P /\ 20 * P <= 19 * den
                /\ <<P, den>> = Reduce(9 * TC + 10 * TR, 20 * TC)
    /\ phase = "done" =>
          \A x \in qs : out[x][2] > 0 /\ 0 <= out[x][1] /\ out[x][1] <= out[x][2]

C11_Witness ==
    /\ Done("db5")
    /\ \E j \in UpChoices :
          /\ Len(order[j].id[4]) = 2
          /\ Cardinality(order[j].id[5]) = 1
          /\ order[j].ws = <<7, 3>>
    /\ \A x \in qs : out[x] = <<7, 10>>

-----------------------------------------------------------------------------
(* Claims about the first notebook, checked under SpecIntro.               *)

\* C6: m5 and m6, each run exactly as written in the notebook, return the
\* same probability for r.
C6_M5EquivalentM6 ==
    (Done("m6") /\ prev.tag = "m5") => out[r] = prev.out[r]

\* the probability of r the rules of m5 give, by the truth values of p and q
RGiven(E) ==
    IF <<p, TRUE>> \in E THEN <<4, 5>>
    ELSE IF <<q, TRUE>> \in E THEN <<3, 5>>
    ELSE <<1, 10>>

\* C7: for each of the four truth assignments to p and q given as evidence,
\* the probabilistic rules of m5 and the auxiliary facts of m6 give r the
\* same probability (4/5 if p, 3/5 if not p and q, 1/10 if neither), and
\* they give r the same probability with no evidence at all.
C7_ProbabilisticRuleIsAuxFact ==
    /\ (phase = "done" /\ tag \in {"m5_rules", "m6_rules"} /\ ev # {})
            => out[r] = RGiven(ev)
    /\ (Done("m6_rules") /\ prev.tag = "m5_rules" /\ prev.ev = ev)
            => out[r] = prev.out[r]

C7_Witness ==
    /\ Done("m6_rules") /\ prev.tag = "m5_rules"
    /\ ev = {} /\ prev.ev = {}
    /\ out[r] = <<9, 25>>

\* C8: in every possible world of m4 exactly one of w1..w4 is true; their
\* probabilities are the products 13/200, 117/200, 7/200, 63/200 of the
\* success and failure probabilities of a and b, and they sum to 1.
C8_PossibleWorlds ==
    /\ InWorldOf("m4") => Cardinality({x \in {w1, w2, w3, w4} : TrueNow(x)}) = 1
    /\ Done("m4") =>
          /\ out[w1] = <<13, 200>> /\ out[w1] = Reduce(65 * 10, 100 * 100)
          /\ out[w2] = <<117, 200>> /\ out[w2] = Reduce(65 * (100 - 10), 100 * 100)
          /\ out[w3] = <<7, 200>> /\ out[w3] = Reduce((100 - 65) * 10, 100 * 100)
          /\ out[w4] = <<63, 200>> /\ out[w4] = Reduce((100 - 65) * (100 - 10), 100 * 100)
          /\ accQ[w1] + accQ[w2] + accQ[w3] + accQ[w4] = accE

C8_Witness == Done("m4") /\ out[w2] = <<117, 200>> /\ TrueNow(w4)

\* C9: not_x is true in exactly the worlds where x is false, so its
\* probability is 1 - P(x): 7/20 for not_a and 9/10 for not_b in m3; and the
\* first model gives P(r | q) = 1 - P(p) = 1/5.
C9_NegationAsFailure ==
    /\ InWorldOf("m3") =>
          /\ TrueNow(not_a) <=> ~TrueNow(a)
          /\ TrueNow(not_b) <=> ~TrueNow(b)
    /\ Done("m3") =>
          /\ out[not_a] = <<7, 20>> /\ out[not_a] = Reduce(100 - 65, 100)
          /\ out[not_b] = <<9, 10>> /\ out[not_b] = Reduce(100 - 10, 100)
    /\ Done("model") => out[r] = <<1, 5>> /\ out[r] = Reduce(10 - 8, 10)

C9_Witness == Done("m3") /\ out[not_a] = <<7, 20>> /\ TrueNow(not_a) /\ TrueNow(not_b)

====
